---- MODULE Spec2Model ----
(***************************************************************************)
(* Model of catch_attr/soil.py: the NetCDF variable reader, the binary     *)
(* grid decoder and the depth-profile aggregator of SoilGrids250 tables.   *)
(*                                                                         *)
(* Column names are sequences of one-character strings, so that the        *)
(* substring tests of the code ("sl1" in col, DataFrame.filter(regex=..))  *)
(* and col.split("_") are computed and not assumed.  Numbers are exact     *)
(* rationals <<numerator, denominator>> in lowest terms (floating-point    *)
(* rounding is not modelled).                                              *)
(***************************************************************************)
EXTENDS Integers, Sequences, FiniteSets, TLC

VARIABLES
    attr_df,      \* the DataFrame passed to the aggregator (mutated in place)
    input_df,     \* the caller's table as it was before the first call
    cols,         \* soil.py:231, the detected property names
    i,            \* soil.py:234, loop index (1-based)
    pc,           \* position in all_soil_depth_mean_weight_in_soilgrids250
    exc,          \* the exception the call ended in ("none" if it did not)
    ncalls,       \* number of calls made with this table
    first_df,     \* the table the first call returned (empty before that)
    ncfile,       \* the .nc file given to the reader
    nc_pc,        \* position of the reader's caller
    nc_result,    \* what the reader's entry point handed back or raised
    nc_stdout,    \* what was printed
    bin_file,     \* the flat binary file given to binary2tif
    bin_pc,       \* position in binary2tif
    data,         \* soil.py:207, the grid read from the file
    resized,      \* soil.py:210, the result of cv2.resize
    raster        \* the band array written by tif_from_array

soil_vars == <<attr_df, input_df, cols, i, pc, exc, ncalls, first_df>>
nc_vars == <<ncfile, nc_pc, nc_result, nc_stdout>>
bin_vars == <<bin_file, bin_pc, data, resized, raster>>
vars == <<soil_vars, nc_vars, bin_vars>>

---------------------------------------------------------------------------
(* Bounds of the model. *)
MaxRows == 2        \* basins (rows) per table: 1..MaxRows
MaxCalls == 2       \* calls of the aggregator with the same table
MaxVars == 2        \* variables per .nc file
OutH == 2           \* rows of the downsampled grid (2160 in the code)
OutW == 3           \* columns of the downsampled grid (4320 in the code)
MaxSlope == 2       \* cell values of a binary file: (a*r + b*c + s), a,b,s in 0..MaxSlope

---------------------------------------------------------------------------
(* Exact rational arithmetic. *)
Abs(n) == IF n < 0 THEN -n ELSE n

RECURSIVE GCD(_, _)
GCD(a, b) == IF b = 0 THEN a ELSE GCD(b, a % b)

Rat(n, d) ==
    LET g == GCD(Abs(n), Abs(d))
        s == IF d < 0 THEN -1 ELSE 1
    IN  IF n = 0 THEN <<0, 1>> ELSE <<(s * n) \div g, (s * d) \div g>>

RInt(n) == <<n, 1>>
RAdd(p, q) == Rat(p[1] * q[2] + q[1] * p[2], p[2] * q[2])
RScale(p, k) == Rat(p[1] * k, p[2])
RDiv(p, k) == Rat(p[1], p[2] * k)

RECURSIVE RSum(_)
RSum(s) == IF s = <<>> THEN RInt(0) ELSE RAdd(Head(s), RSum(Tail(s)))

---------------------------------------------------------------------------
(* Strings as sequences of characters. *)
Contains(s, sub) ==
    \E k \in 0..(Len(s) - Len(sub)) : SubSeq(s, k + 1, k + Len(sub)) = sub

\* col.split("_")[0]
SplitFirst(s) ==
    IF \E k \in 1..Len(s) : s[k] = "_"
    THEN LET k == CHOOSE k \in 1..Len(s) :
                      s[k] = "_" /\ \A m \in 1..(k - 1) : s[m] # "_"
         IN  SubSeq(s, 1, k - 1)
    ELSE s

Digit == <<"1", "2", "3", "4", "5", "6", "7">>

\* "sl" + str(j)
LayerTag(j) == <<"s", "l", Digit[j]>>

---------------------------------------------------------------------------
(* A DataFrame: nrows rows and a sequence of named columns.               *)
Frame(n, columns) == [nrows |-> n, columns |-> columns]

\* attr_df.columns.values
ColumnNames(df) == [k \in 1..Len(df.columns) |-> df.columns[k].name]

HasColumn(df, name) == \E k \in 1..Len(df.columns) : df.columns[k].name = name

\* the values of the column called name
Column(df, name) ==
    df.columns[CHOOSE k \in 1..Len(df.columns) : df.columns[k].name = name].vals

\* DataFrame.filter(regex=pat): the columns whose label the pattern is found in
FilterRegex(df, pat) ==
    Frame(df.nrows, SelectSeq(df.columns, LAMBDA c : Contains(c.name, pat)))

\* DataFrame.values.flatten(): row-major
Flatten(df) ==
    LET k == Len(df.columns)
    IN  [x \in 1..(df.nrows * k) |->
            df.columns[((x - 1) % k) + 1].vals[((x - 1) \div k) + 1]]

\* a mutant of SetColumn: a new column takes the place of the last one
SetColumnOverLast(df, name, vals) ==
    LET n == Len(df.columns)
    IN  IF n = 0
        THEN Frame(df.nrows, <<[name |-> name, vals |-> vals]>>)
        ELSE Frame(df.nrows,
                   [k \in 1..n |-> IF k = n THEN [name |-> name, vals |-> vals]
                                            ELSE df.columns[k]])

\* attr_df[name] = vals: overwrite the column of that name, or append one
SetColumn(df, name, vals) ==
    IF HasColumn(df, name)
    THEN Frame(df.nrows,
               [k \in 1..Len(df.columns) |->
                   IF df.columns[k].name = name
                   THEN [name |-> name, vals |-> vals]
                   ELSE df.columns[k]])
    ELSE Frame(df.nrows, Append(df.columns, [name |-> name, vals |-> vals]))

---------------------------------------------------------------------------
(* all_soil_depth_mean_weight_in_soilgrids250                              *)

\* soil.py:231
DetectCols(df) ==
    LET hit == SelectSeq(ColumnNames(df), LAMBDA c : Contains(c, LayerTag(1)))
    IN  [k \in 1..Len(hit) |-> SplitFirst(hit[k])]

soil_depths == <<0, 5, 15, 30, 60, 100, 200>>
heights == [k \in 1..(Len(soil_depths) - 1) |-> soil_depths[k + 1] - soil_depths[k]]
TotalDepth == 200

\* a mutant of LayerValues: the j-th matched column, whatever its layer
LayerValuesByPosition(attr_, j) == attr_.columns[j].vals

\* soil.py:240, the right-hand side
LayerValues(attr_, j) == Flatten(FilterRegex(attr_, LayerTag(j)))

\* soil.py:240: the assignment all_numbers[:, j - 1] = ... succeeds when column
\* j - 1 exists and the flattened values have length nrows (or broadcast from 1)
FillOk(attr_, j) ==
    LET len == attr_.nrows * Len(FilterRegex(attr_, LayerTag(j)).columns)
    IN  /\ j <= Len(attr_.columns)
        /\ (len = attr_.nrows \/ len = 1)

\* soil.py:236, 239-240: zeros(attr_.shape) with columns 0..6 filled by the
\* passes j = 1..7 of the loop
AllNumbers(attr_) ==
    LET filled == <<LayerValues(attr_, 1), LayerValues(attr_, 2), LayerValues(attr_, 3),
                    LayerValues(attr_, 4), LayerValues(attr_, 5), LayerValues(attr_, 6),
                    LayerValues(attr_, 7)>>
    IN  [r \in 1..attr_.nrows |->
            [c \in 1..Len(attr_.columns) |->
                IF c <= 7
                THEN IF Len(filled[c]) = 1 THEN filled[c][1] ELSE filled[c][r]
                ELSE RInt(0)]]

\* heights * (row[:-1] + row[1:]) broadcasts when the row has 7 (or 2) values
MeanOk(attr_) ==
    attr_.nrows = 0 \/ Len(attr_.columns) - 1 \in {Len(heights), 1}

\* a mutant of TrapMean: the plain average of the layers
PlainMean(row) == RDiv(RSum(row), Len(row))

\* soil.py:242-244
TrapMean(row) ==
    LET pair(k) == IF Len(row) = 2 THEN RAdd(row[1], row[2])
                                   ELSE RAdd(row[k], row[k + 1])
    IN  RDiv(RSum([k \in 1..Len(heights) |-> RDiv(RScale(pair(k), heights[k]), 2)]),
             TotalDepth)

\* soil.py:235-245, one pass of the loop over the detected properties
Body(df, col) ==
    LET attr_ == FilterRegex(df, col)
    IN  IF \E j \in 1..7 : ~FillOk(attr_, j)
        THEN LET j == CHOOSE j \in 1..7 : ~FillOk(attr_, j) /\ \A m \in 1..(j - 1) : FillOk(attr_, m)
             IN  [ok |-> FALSE,
                  exc |-> IF j > Len(attr_.columns) THEN "IndexError" ELSE "ValueError",
                  df |-> df]
        ELSE IF ~MeanOk(attr_)
        THEN [ok |-> FALSE, exc |-> "ValueError", df |-> df]
        ELSE LET all_numbers == AllNumbers(attr_)
                 mean_value == [r \in 1..attr_.nrows |-> TrapMean(all_numbers[r])]
             IN  [ok |-> TRUE, exc |-> "none", df |-> SetColumn(df, col, mean_value)]

\* the whole call, as a function of the table it is given
RECURSIVE RunFrom(_, _, _)
RunFrom(df, cs, k) ==
    IF k > Len(cs)
    THEN [ok |-> TRUE, exc |-> "none", df |-> df]
    ELSE LET b == Body(df, cs[k])
         IN  IF b.ok THEN RunFrom(b.df, cs, k + 1) ELSE b

Run(df) == RunFrom(df, DetectCols(df), 1)

---------------------------------------------------------------------------
(* The per-basin tables the aggregator is given.                           *)

\* property names; "x" is found inside "xy", "z" in no other name
Properties == << <<"x">>, <<"x", "y">>, <<"z">> >>
\* columns outside the layer convention; "x" is found inside "idx"
Others == << <<"i", "d">>, <<"i", "d", "x">> >>

\* which layer columns a table holds of each property: none, all, all but
\* sl3, all but sl7, sl3 alone
LayerChoices == << {{}, 1..7, (1..7) \ {3}, 1..6, {3}},
                   {{}, 1..7, {3}},
                   {{}, 1..7} >>

\* layer values of one basin, shallowest first
Profiles == << <<0, 10, 20, 30, 40, 50, 60>>,
               <<3, 1, 4, 1, 5, 9, 2>>,
               <<7, 0, 0, 0, 0, 0, 1>> >>

\* a column key <<p, j>>: layer j of Properties[p], or Others[j] when p = 0
KeyName(key) ==
    IF key[1] = 0 THEN Others[key[2]]
    ELSE Properties[key[1]] \o <<"_">> \o LayerTag(key[2])

KeyValue(key, r, seed) ==
    IF key[1] = 0 THEN RInt(100 * key[2] + r)
    ELSE RInt(Profiles[((seed + key[1] + r) % Len(Profiles)) + 1][key[2]])

NKeys == 7 * Len(Properties)
Scramble == <<4, 2, 7, 1, 6, 3, 5>>

Reverse(s) == [k \in 1..Len(s) |-> s[Len(s) + 1 - k]]

Grouped == << <<0, 1>> >>
           \o [k \in 1..NKeys |-> <<((k - 1) \div 7) + 1, ((k - 1) % 7) + 1>>]
           \o << <<0, 2>> >>
ByLayer == [k \in 1..NKeys |-> <<((k - 1) % Len(Properties)) + 1,
                                 ((k - 1) \div Len(Properties)) + 1>>]
           \o << <<0, 1>>, <<0, 2>> >>
Scrambled == << <<0, 2>>, <<0, 1>> >>
             \o [k \in 1..NKeys |-> <<((k - 1) \div 7) + 1, Scramble[((k - 1) % 7) + 1]>>]

\* the column orders a table is given in
Orders == {Grouped, Reverse(Grouped), ByLayer, Scrambled}

\* the table with the layers of each property, the other columns, the
\* column order, the number of rows and the values chosen
Table(layers, others, order, n, seed) ==
    LET present(key) == IF key[1] = 0 THEN key[2] \in others
                                     ELSE key[2] \in layers[key[1]]
        keys == SelectSeq(order, present)
    IN  Frame(n, [k \in 1..Len(keys) |->
                     [name |-> KeyName(keys[k]),
                      vals |-> [r \in 1..n |-> KeyValue(keys[k], r, seed)]]])

InputTables ==
    { Table(<<lx, lxy, lz>>, others, order, n, seed) :
        lx \in LayerChoices[1], lxy \in LayerChoices[2], lz \in LayerChoices[3],
        others \in SUBSET (1..Len(Others)), order \in Orders,
        n \in 1..MaxRows, seed \in 0..(Len(Profiles) - 1) }

SoilInit ==
    /\ attr_df \in InputTables
    /\ input_df = attr_df
    /\ cols = <<>>
    /\ i = 1
    /\ pc = "idle"
    /\ exc = "none"
    /\ ncalls = 0
    /\ first_df = Frame(0, <<>>)

\* soil.py:230-233: the call starts, with the table itself (not a copy)
Call ==
    /\ pc \in {"idle", "returned"}
    /\ ncalls < MaxCalls
    /\ cols' = DetectCols(attr_df)
    /\ i' = 1
    /\ pc' = "loop"
    /\ ncalls' = ncalls + 1
    /\ UNCHANGED <<attr_df, input_df, exc, first_df, nc_vars, bin_vars>>

\* soil.py:234-245: one pass of the loop stores the property's mean
Iterate ==
    /\ pc = "loop"
    /\ i <= Len(cols)
    /\ LET b == Body(attr_df, cols[i])
       IN  b.ok /\ attr_df' = b.df
    /\ i' = i + 1
    /\ UNCHANGED <<input_df, cols, pc, exc, ncalls, first_df, nc_vars, bin_vars>>

\* soil.py:240, 243: numpy raises, the call ends in the exception
Raise ==
    /\ pc = "loop"
    /\ i <= Len(cols)
    /\ LET b == Body(attr_df, cols[i])
       IN  ~b.ok /\ exc' = b.exc
    /\ pc' = "raised"
    /\ UNCHANGED <<attr_df, input_df, cols, i, ncalls, first_df, nc_vars, bin_vars>>

\* soil.py:246
Return ==
    /\ pc = "loop"
    /\ i > Len(cols)
    /\ pc' = "returned"
    /\ first_df' = IF ncalls = 1 THEN attr_df ELSE first_df
    /\ UNCHANGED <<attr_df, input_df, cols, i, exc, ncalls, nc_vars, bin_vars>>

SoilNext == Call \/ Iterate \/ Raise \/ Return

---------------------------------------------------------------------------
(* The Variable Reader.                                                    *)

VarNames == <<"v1", "v2", "v3", "v4">>
AttrNames == {"longname", "long_name", "units"}

\* a .nc file: whether it can be opened, and the attributes each variable has
NcFiles ==
    { [path |-> "data/soil.nc", openable |-> o, attrs |-> a] :
        o \in BOOLEAN,
        a \in UNION { [1..n -> SUBSET AttrNames] : n \in 0..MaxVars } }

\* the value of attribute a of the k-th variable
AttrValue(k, a) == <<VarNames[k], a>>

\* soil.py:91
ReadVariables(f) == [k \in 1..Len(f.attrs) |-> <<VarNames[k], "array">>]

\* soil.py:95: the variable has one of the two spellings
HasLongname(f, k) == "longname" \in f.attrs[k] \/ "long_name" \in f.attrs[k]

\* soil.py:88-106
read_nc_data(f) ==
    IF ~f.openable
    THEN \* netCDF4.Dataset raises IOError; it is printed and None is returned
         [kind |-> "return_none", value |-> <<>>,
          stdout |-> << <<"File corrupted: ", f.path>> >>]
    ELSE IF \E k \in 1..Len(f.attrs) : ~HasLongname(f, k)
    THEN \* soil.py:98: file[x].long_name of a variable without the attribute
         [kind |-> "raise", value |-> <<"AttributeError">>, stdout |-> <<>>]
    ELSE [kind |-> "return",
          value |-> <<ReadVariables(f),
                      [k \in 1..Len(f.attrs) |->
                          IF "longname" \in f.attrs[k]
                          THEN AttrValue(k, "longname")
                          ELSE AttrValue(k, "long_name")],
                      [k \in {m \in 1..Len(f.attrs) : "units" \in f.attrs[m]} |->
                          AttrValue(k, "units")]>>,
          stdout |-> <<>>]

\* soil.py:109-110
nc_var_description(f) ==
    LET r == read_nc_data(f)
    IN  IF r.kind = "raise" THEN r
        ELSE IF r.kind = "return_none"
        THEN \* None[1]
             [kind |-> "raise", value |-> <<"TypeError">>, stdout |-> r.stdout]
        ELSE [kind |-> "return", value |-> r.value[2], stdout |-> r.stdout]

NcInit ==
    /\ ncfile \in NcFiles
    /\ nc_pc = "idle"
    /\ nc_result = [kind |-> "none", value |-> <<>>]
    /\ nc_stdout = <<>>

CallReadNcData ==
    /\ nc_pc = "idle"
    /\ nc_pc' = "read_nc_data"
    /\ nc_result' = [kind |-> read_nc_data(ncfile).kind,
                     value |-> read_nc_data(ncfile).value]
    /\ nc_stdout' = nc_stdout \o read_nc_data(ncfile).stdout
    /\ UNCHANGED <<ncfile, soil_vars, bin_vars>>

CallNcVarDescription ==
    /\ nc_pc = "idle"
    /\ nc_pc' = "nc_var_description"
    /\ nc_result' = [kind |-> nc_var_description(ncfile).kind,
                     value |-> nc_var_description(ncfile).value]
    /\ nc_stdout' = nc_stdout \o nc_var_description(ncfile).stdout
    /\ UNCHANGED <<ncfile, soil_vars, bin_vars>>

NcNext == CallReadNcData \/ CallNcVarDescription

---------------------------------------------------------------------------
(* The Binary Grid Decoder.  A grid is a sequence of rows.                 *)

ResizeFactor == 10
NoData == -9999
SrcH == OutH * ResizeFactor     \* 21600 in the code
SrcW == OutW * ResizeFactor     \* 43200 in the code

\* the contents of a binary file: SrcH * SrcW float64 values, row-major
BinaryFiles ==
    { [k \in 1..(SrcH * SrcW) |->
          a * ((k - 1) \div SrcW) + b * ((k - 1) % SrcW) + s] :
        a \in 0..MaxSlope, b \in 0..MaxSlope, s \in 0..MaxSlope }

\* numpy reshape((h, w))
Reshape(flat, h, w) == [r \in 1..h |-> [c \in 1..w |-> flat[(r - 1) * w + c]]]

GridMin(g) ==
    CHOOSE m \in {g[r][c] : r \in 1..Len(g), c \in 1..Len(g[1])} :
        \A r \in 1..Len(g) : \A c \in 1..Len(g[1]) : m <= g[r][c]

\* soil.py:208
RemapMin(g) ==
    LET m == GridMin(g)
    IN  [r \in 1..Len(g) |-> [c \in 1..Len(g[1]) |->
            IF g[r][c] = m THEN NoData ELSE g[r][c]]]

\* cv2.resize(g, (w, h)) with the default bilinear interpolation, when the
\* grid is f times as large each way: the sample point of output cell r0 is
\* f * r0 + (f - 1) / 2 (0-based), a cell when f is odd and the midpoint
\* of two cells when f is even
Cv2Resize(g, w, h) ==
    LET f == Len(g) \div h
        lo(k) == f * (k - 1) + ((f - 1) \div 2) + 1
        hi(k) == IF f % 2 = 0 THEN lo(k) + 1 ELSE lo(k)
    IN  [r \in 1..h |-> [c \in 1..w |->
            RDiv(RInt(g[lo(r)][lo(c)] + g[lo(r)][hi(c)]
                      + g[hi(r)][lo(c)] + g[hi(r)][hi(c)]), 4)]]

\* numpy.flip(m, axis)
NpFlip(m, axis) ==
    IF axis = 0
    THEN [r \in 1..Len(m) |-> m[Len(m) + 1 - r]]
    ELSE [r \in 1..Len(m) |-> [c \in 1..Len(m[r]) |-> m[r][Len(m[r]) + 1 - c]]]

Transpose(m) == [c \in 1..Len(m[1]) |-> [r \in 1..Len(m) |-> m[r][c]]]

\* numpy.rot90(m, k)
NpRot90(m, k) ==
    CASE k % 4 = 0 -> m
      [] k % 4 = 1 -> Transpose(NpFlip(m, 1))
      [] k % 4 = 2 -> NpFlip(NpFlip(m, 0), 1)
      [] k % 4 = 3 -> NpFlip(Transpose(m), 1)

\* a mutant of Cv2Flip: the flip codes 0 and 1 exchanged
Cv2FlipSwapped(m, flipCode) ==
    IF flipCode = 0 THEN NpFlip(m, 1)
    ELSE IF flipCode > 0 THEN NpFlip(m, 0)
    ELSE NpFlip(NpFlip(m, 0), 1)

\* cv2.flip(m, flipCode): 0 around the x-axis, > 0 around the y-axis, < 0 both
Cv2Flip(m, flipCode) ==
    IF flipCode = 0 THEN NpFlip(m, 0)
    ELSE IF flipCode > 0 THEN NpFlip(m, 1)
    ELSE NpFlip(NpFlip(m, 0), 1)

BinInit ==
    /\ bin_file \in BinaryFiles
    /\ bin_pc = "start"
    /\ data = <<>>
    /\ resized = <<>>
    /\ raster = <<>>

\* soil.py:207
ReadBinary ==
    /\ bin_pc = "start"
    /\ data' = Reshape(bin_file, SrcH, SrcW)
    /\ bin_pc' = "read"
    /\ UNCHANGED <<bin_file, resized, raster, soil_vars, nc_vars>>

\* soil.py:208
RemapSentinel ==
    /\ bin_pc = "read"
    /\ data' = RemapMin(data)
    /\ bin_pc' = "remapped"
    /\ UNCHANGED <<bin_file, resized, raster, soil_vars, nc_vars>>

\* soil.py:210, the innermost call
Resize ==
    /\ bin_pc = "remapped"
    /\ resized' = Cv2Resize(data, SrcW \div ResizeFactor, SrcH \div ResizeFactor)
    /\ bin_pc' = "resized"
    /\ UNCHANGED <<bin_file, data, raster, soil_vars, nc_vars>>

\* soil.py:209-211 and 139: the reoriented grid is written to the band
WriteTif ==
    /\ bin_pc = "resized"
    /\ raster' = Cv2Flip(NpRot90(resized, 2), 1)
    /\ bin_pc' = "written"
    /\ UNCHANGED <<bin_file, data, resized, soil_vars, nc_vars>>

BinNext == ReadBinary \/ RemapSentinel \/ Resize \/ WriteTif

---------------------------------------------------------------------------
(* Specifications: one per component, the other two at rest.               *)

SoilRest ==
    /\ attr_df = Frame(0, <<>>)
    /\ input_df = attr_df
    /\ cols = <<>>
    /\ i = 1
    /\ pc = "idle"
    /\ exc = "none"
    /\ ncalls = MaxCalls
    /\ first_df = Frame(0, <<>>)

NcRest ==
    /\ ncfile = [path |-> "data/soil.nc", openable |-> TRUE, attrs |-> <<>>]
    /\ nc_pc = "rest"
    /\ nc_result = [kind |-> "none", value |-> <<>>]
    /\ nc_stdout = <<>>

BinRest ==
    /\ bin_file = <<>>
    /\ bin_pc = "rest"
    /\ data = <<>>
    /\ resized = <<>>
    /\ raster = <<>>

Init == SoilInit /\ NcRest /\ BinRest
Next == SoilNext
Spec == Init /\ [][Next]_vars

InitNc == SoilRest /\ NcInit /\ BinRest
SpecNc == InitNc /\ [][NcNext]_vars

InitBin == SoilRest /\ NcRest /\ BinInit
SpecBin == InitBin /\ [][BinNext]_vars

---------------------------------------------------------------------------
(* Properties of the Depth-Profile Aggregator.                             *)

\* the name of layer column j of property p
LayerName(p, j) == p \o <<"_">> \o LayerTag(j)

\* the name ends in _sl1 .. _sl7
IsLayerColumn(name) ==
    /\ Len(name) >= 4
    /\ \E j \in 1..7 : SubSeq(name, Len(name) - 3, Len(name)) = <<"_">> \o LayerTag(j)

\* the property of a layer column: the name without its _slj ending
PropertyOf(name) == SubSeq(name, 1, Len(name) - 4)

\* the properties a table has an sl1 column of
Detected(df) ==
    { PropertyOf(df.columns[k].name) :
        k \in {m \in 1..Len(df.columns) :
                 /\ IsLayerColumn(df.columns[m].name)
                 /\ Contains(df.columns[m].name, LayerTag(1)) } }

HasAllLayers(df, p) == \A j \in 1..7 : HasColumn(df, LayerName(p, j))

\* every column is a layer column of a property that has all seven
WellFormed(df) ==
    /\ Len(df.columns) > 0
    /\ \A k \in 1..Len(df.columns) :
          /\ IsLayerColumn(df.columns[k].name)
          /\ HasAllLayers(df, PropertyOf(df.columns[k].name))

Boundaries == <<0, 5, 15, 30, 60, 100, 200>>

\* sum over i = 1..6 of (d[i+1] - d[i]) * (v_i + v_{i+1}) / 2, divided by 200
WeightedMean(v) ==
    RDiv(RSum([k \in 1..6 |->
                  RDiv(RScale(RAdd(v[k], v[k + 1]), Boundaries[k + 1] - Boundaries[k]), 2)]),
         200)

\* the value the contract gives property p in row r of table df
Expected(df, p, r) == WeightedMean([j \in 1..7 |-> Column(df, LayerName(p, j))[r]])

Finished == pc \in {"returned", "raised"}

\* C1: for every table whose columns follow the convention, every property
\* with all seven layers and every row, the call stores the weighted mean of
\* the property's own layers in the column named after the property.
C1_OwnLayersMean ==
    (Finished /\ ncalls = 1 /\ WellFormed(input_df)) =>
        \A p \in Detected(input_df) :
            /\ HasColumn(attr_df, p)
            /\ \A r \in 1..input_df.nrows :
                  Column(attr_df, p)[r] = Expected(input_df, p, r)

\* the single-row table of the example: x_sl1..x_sl7 = 0, 10, .., 60
ExampleTable(df) ==
    /\ df.nrows = 1
    /\ Len(df.columns) = 7
    /\ \A j \in 1..7 :
          /\ HasColumn(df, LayerName(<<"x">>, j))
          /\ Column(df, LayerName(<<"x">>, j)) = <<RInt(10 * (j - 1))>>

\* C2 as stated: the example's aggregated value is 32.75.
C2_Example3275 ==
    (pc = "returned" /\ ExampleTable(input_df)) =>
        Column(attr_df, <<"x">>) = <<Rat(3275, 100)>>

\* C2, amended: the example's aggregated value is the weighted mean of
\* 0, 10, .., 60 over the boundaries 0, 5, 15, 30, 60, 100, 200, which is 44.5.
C2_Example445 ==
    (pc = "returned" /\ ExampleTable(input_df)) =>
        /\ Column(attr_df, <<"x">>) = <<Rat(445, 10)>>
        /\ Column(attr_df, <<"x">>) = <<Expected(input_df, <<"x">>, 1)>>

C2_Witness == pc = "returned" /\ ncalls = 1 /\ ExampleTable(input_df)

\* the columns of df in another order
Permute(df, perm) == Frame(df.nrows, [k \in 1..Len(df.columns) |-> df.columns[perm[k]]])

\* reversal, rotation by one and every exchange of two neighbouring columns
Shuffles(n) ==
    {[k \in 1..n |-> n + 1 - k], [k \in 1..n |-> (k % n) + 1]}
    \cup {[k \in 1..n |-> IF k = m THEN m + 1 ELSE IF k = m + 1 THEN m ELSE k] :
            m \in 1..(n - 1)}

\* the two tables hold the same columns with the same values, in any order
SameColumns(a, b) ==
    /\ a.nrows = b.nrows
    /\ Len(a.columns) = Len(b.columns)
    /\ \A k \in 1..Len(a.columns) :
          /\ HasColumn(b, a.columns[k].name)
          /\ Column(b, a.columns[k].name) = a.columns[k].vals

\* C3: the outcome of the call does not depend on the order of the columns
\* of the table: with the columns shuffled the call ends the same way and
\* gives every column the same values in every row.
C3_OrderIndependent ==
    (Finished /\ ncalls = 1) =>
        \A perm \in Shuffles(Len(input_df.columns)) :
            LET other == Run(Permute(input_df, perm))
            IN  /\ other.ok = (pc = "returned")
                /\ (pc = "returned") => SameColumns(other.df, attr_df)

\* a property was aggregated whose layer columns do not come in layer order
C3_Witness ==
    /\ pc = "returned"
    /\ ncalls = 1
    /\ \E p \in Detected(input_df) :
          /\ HasAllLayers(input_df, p)
          /\ HasColumn(attr_df, p)
          /\ LET at(j) == CHOOSE k \in 1..Len(input_df.columns) :
                              input_df.columns[k].name = LayerName(p, j)
             IN  at(7) < at(1) /\ at(4) < at(2)
          /\ Column(attr_df, p)[1] = Expected(input_df, p, 1)

\* C4: after the call returns, no layer column of a detected property is
\* left in the table and exactly one column named after the property is.
C4_LayersReplaced ==
    (pc = "returned" /\ ncalls = 1) =>
        \A p \in Detected(input_df) :
            /\ \A j \in 1..7 : ~HasColumn(attr_df, LayerName(p, j))
            /\ Cardinality({k \in 1..Len(attr_df.columns) :
                               attr_df.columns[k].name = p}) = 1

\* C5: a table in which a detected property lacks a layer column makes the
\* call end in an error; it never returns.
C5_MissingLayerRaises ==
    (ncalls = 1 /\ \E p \in Detected(input_df) : ~HasAllLayers(input_df, p)) =>
        pc # "returned"

\* C6: when the call returns, every input column outside the layer
\* convention is in the output under its name with its values, and the
\* rows are those of the input.
C6_OthersUnchanged ==
    (pc = "returned") =>
        /\ attr_df.nrows = input_df.nrows
        /\ \A k \in 1..Len(input_df.columns) :
              ~IsLayerColumn(input_df.columns[k].name) =>
                  /\ Cardinality({m \in 1..Len(attr_df.columns) :
                        attr_df.columns[m].name = input_df.columns[k].name}) = 1
                  /\ Column(attr_df, input_df.columns[k].name) = input_df.columns[k].vals

\* a call that aggregated a property returned a table with another column
C6_Witness ==
    /\ pc = "returned"
    /\ cols # <<>>
    /\ \E k \in 1..Len(input_df.columns) : ~IsLayerColumn(input_df.columns[k].name)

\* C7: a second call with the table the first call returned completes
\* without error and gives every property the values of the first call.
C7_SecondCallSame ==
    (Finished /\ ncalls = 2 /\ WellFormed(input_df)) =>
        /\ pc = "returned"
        /\ \A p \in Detected(input_df) : Column(attr_df, p) = Column(first_df, p)

---------------------------------------------------------------------------
(* Properties of the Variable Reader.                                      *)

\* C8: for a file that cannot be opened, both entry points print the path
\* of the file and hand back an empty result; neither raises.
C8_UnopenableReported ==
    (~ncfile.openable /\ nc_pc \in {"read_nc_data", "nc_var_description"}) =>
        /\ nc_result.kind = "return_none"
        /\ \E k \in 1..Len(nc_stdout) : nc_stdout[k][2] = ncfile.path

\* C9: for a file that can be opened, read_nc_data returns the triple
\* whatever attributes its variables lack.
C9_MissingAttrsNonFatal ==
    (ncfile.openable /\ nc_pc = "read_nc_data") =>
        /\ nc_result.kind = "return"
        /\ Len(nc_result.value) = 3

---------------------------------------------------------------------------
(* Properties of the Binary Grid Decoder.                                  *)

\* C10: the grid written to the raster is the downsampled grid with its rows
\* in reverse order and its columns in place, and has the same shape.
C10_RowsReversed ==
    (bin_pc = "written") =>
        /\ Len(raster) = Len(resized)
        /\ \A r \in 1..Len(resized) :
              /\ Len(raster[r]) = Len(resized[r])
              /\ \A c \in 1..Len(resized[r]) :
                    raster[r][c] = resized[Len(resized) + 1 - r][c]

\* a written grid whose rows differ and whose rows are not palindromes
C10_Witness ==
    /\ bin_pc = "written"
    /\ Len(resized) = OutH
    /\ resized[1] # resized[OutH]
    /\ resized[1][1] # resized[1][OutW]
    /\ raster[1] = resized[OutH]

====
